---- MODULE Spec2Model ----
(***************************************************************************)
(* A model of the logging_timer crate: the LoggingTimer value, its two     *)
(* constructors, executing, finish, log_impl, log_record and Drop, the     *)
(* timer!/stimer!/executing!/finish! macros that call them, and what       *)
(* log_enabled! reads: the log crate's global level filter and the answer  *)
(* of the installed logger.                                                *)
(*                                                                         *)
(* One timer is built by the thread "main", which owns it.  When `shared`  *)
(* holds, a second thread "worker" holds a shared reference to the timer   *)
(* and calls executing and finish through it.  Every read of the level     *)
(* filter, every atomic access to `finished`, every read of the clock and  *)
(* every call of the logger is a step of its own, so the other thread and  *)
(* set_max_level can run between two of them.                              *)
(*                                                                         *)
(* The proc-macro crate is the second part: the attributes #[time] and     *)
(* #[stime] read a level and a name pattern from their tokens and put a    *)
(* timer! or stimer! in front of the function's block.  Strings are        *)
(* sequences of characters, so that trimming, lowering and the replacing   *)
(* of "{}" are computed as the code computes them.  SpecAttr builds one    *)
(* function under an attribute and calls it once.                          *)
(***************************************************************************)
EXTENDS Integers, Sequences, FiniteSets, TLC

\* ------------------------------------------------------------------ bounds
\* The number of executing!, finish!, level and elapsed invocations made on the timer.
MaxCalls == 2
\* The latest instant the monotonic clock reaches.
MaxTime == 1
\* The number of arguments written in an attribute.
MaxArgs == 3

\* ------------------------------------------------------------------ values
Threads == {"main", "worker"}

\* log::Level, and log::LevelFilter (the levels and Off).
Levels == {"Error", "Warn", "Info", "Debug", "Trace"}
Filters == {"Off"} \cup Levels
\* The levels the callers of the model ask for, and the filters they set.
TimerLevels == {"Error", "Debug"}
SetFilters == {"Off", "Error", "Trace"}
\* The filter compiled into the log crate, which asks for none of its
\* max_level features.
STATIC_MAX_LEVEL == "Trace"
\* The filters of the logger that is installed: one that answers false to
\* every Log::enabled for the timer's records (as does the log crate's own
\* logger when none is installed), and one that answers true to all.
LoggerFilters == {"Off", "Trace"}

\* The order of log::Level: Error < Warn < Info < Debug < Trace, Off below all.
Rank(l) ==
    CASE l = "Off" -> 0
      [] l = "Error" -> 1
      [] l = "Warn" -> 2
      [] l = "Info" -> 3
      [] l = "Debug" -> 4
      [] l = "Trace" -> 5

\* Option<T>: None is the empty sequence, Some(x) the sequence <<x>>.
None == <<>>
Some(x) == <<x>>
IsSome(o) == o # <<>>

\* What file!(), module_path!() and line!() give at the place of the macro call.
CallSites == {[file |-> "examples/logging_demo.rs", module_path |-> "logging_demo", line |-> 22]}
Names == {"MAIN"}
\* The extra info of the timer: absent, or the text format! makes of the arguments.
FormatArgs == {None, Some("I")}
\* The arguments of one executing! or finish! call.
CallArgs == {None, Some("A")}

\* Option<LoggingTimer>::None, and a field-for-field image of the struct.
NoTimer == [some |-> FALSE]

VARIABLES
    maxLevel,    \* log::max_level(): the filter log_enabled! compares with
    now,         \* the instant Instant::now() returned last
    tmr,         \* the Option<LoggingTimer> the constructor returned
    shared,      \* whether the worker thread holds a reference to the timer
    logger,      \* the filter the installed logger's Log::enabled applies
    fmtArgs,     \* per thread: the fmt::Arguments log_impl built for log_record
    pc,          \* per thread: where it stands
    op,          \* per thread: the operation it is running
    target,      \* per thread: the TimerTarget passed to log_impl
    args,        \* per thread: the Option<fmt::Arguments> passed to log_impl
    calls,       \* the executing!, finish! and level invocations made so far
    params,      \* the arguments the constructor was called with
    log,         \* the records handed to log::logger().log, in order
    \* history of the run, read by the properties only
    ctor,        \* the constructor that was called
    ctorQuery,   \* the answer of the constructor's first log_enabled!
    formats,     \* the number of format! evaluations
    nExec,       \* the number of executing calls made on a timer
    finCalls,    \* the explicit finish calls made on a timer, in order
    suppressed,  \* per target: the log_impl calls that returned early
    emittedBy,   \* for each record of log: the operation that emitted it
    lateExec,    \* an executing call was made after a finish call
    elapsedCalls, \* the values the elapsed() calls returned, in order
    \* a function under the #[time] or #[stime] attribute
    attr,        \* the attribute, its token stream and the function it is put on
    parsed,      \* the level and name pattern the attribute read from its tokens
    expansion,   \* what the attribute made of the function
    blockRun,    \* Some(n) once the function's own block has run, after n records
    bodyAt       \* the number of statements of that block that have run

vars == <<maxLevel, now, tmr, shared, logger, fmtArgs, pc, op, target, args, calls, params, log,
          ctor, ctorQuery, formats, nExec, finCalls, suppressed, emittedBy, lateExec,
          elapsedCalls, attr, parsed, expansion, blockRun, bodyAt>>

macroVars == <<attr, parsed, expansion, blockRun, bodyAt>>

hist == <<ctor, ctorQuery, formats, nExec, finCalls, suppressed, emittedBy, lateExec,
          elapsedCalls>>

\* The values the state holds: the fields of the LoggingTimer struct, the
\* positions of the threads in its methods, the log crate's filter.
TypeOK ==
    /\ maxLevel \in Filters
    /\ now \in 0..MaxTime
    /\ tmr.some \in BOOLEAN
    /\ tmr.some =>
          /\ tmr.level \in Levels
          /\ tmr.file = params.site.file
          /\ tmr.module_path = params.site.module_path
          /\ tmr.line = params.site.line
          /\ tmr.finished \in BOOLEAN
          /\ tmr.start_time \in 0..now
          /\ tmr.name = params.name
          /\ tmr.extra_info \in FormatArgs
    /\ shared \in BOOLEAN
    /\ logger \in LoggerFilters
    /\ \A t \in Threads : IsSome(fmtArgs[t]) <=> pc[t] = "log_record"
    /\ pc \in [Threads -> {"expand", "build_failed", "start", "wsm_new", "log_impl",
                           "log_format", "log_record", "fin_store", "idle", "done",
                           "panicked"}]
    /\ op \in [Threads -> {"none", "with_start_message", "executing", "finish", "drop"}]
    /\ target \in [Threads -> {"none", "Starting", "Executing", "Finished"}]
    /\ args \in [Threads -> CallArgs]
    /\ calls \in 0..MaxCalls
    /\ Len(emittedBy) = Len(log)
    /\ elapsedCalls \in Seq(0..MaxTime)
    /\ attr.macro \in {"none", "time", "stime"}
    /\ parsed.panic \in BOOLEAN
    /\ expansion.panic \in BOOLEAN
    /\ blockRun \in {None} \cup {Some(n) : n \in 0..Len(log)}
    /\ bodyAt \in Nat

\* ------------------------------------------------------------------ helpers
\* Log::enabled of the installed logger, asked about a record of this level.
LoggerEnabled(level) == Rank(level) <= Rank(logger)

\* log::log_enabled!(level), with the filter as it is now: the level is within
\* the compiled-in filter and within max_level(), and the logger enables it.
LogEnabled(level) ==
    /\ Rank(level) <= Rank(STATIC_MAX_LEVEL)
    /\ Rank(level) <= Rank(maxLevel)
    /\ LoggerEnabled(level)

\* The instants a call of Instant::now() may return: the clock is monotonic, so
\* none before the instant it returned last.
Clock == now..MaxTime

\* A faulty elapsed, which gives the time left on the clock.
elapsed_remaining(t, clk) == MaxTime - clk

\* self.start_time.elapsed(), when Instant::now() returns clk.
elapsed(t, clk) == clk - t.start_time

Active == IF shared THEN Threads ELSE {"main"}

Set(f, t, v) == [f EXCEPT ![t] = v]

Count(tg) == Cardinality({i \in 1..Len(log) : log[i].target = tg})

\* The threads that act on the timer, and the time in which they may: after the
\* constructor has returned and before the owner's scope ends.
Live ==
    /\ ctor # "none"
    /\ pc["main"] \notin {"start", "wsm_new", "done", "panicked"}
    /\ op["main"] \notin {"with_start_message", "drop"}

Running == pc["main"] \notin {"done", "panicked", "build_failed"}

\* ------------------------------------------------------------------ the log crate
\* log::set_max_level, called by whoever configures logging, at any moment.
SetMaxLevel(f) ==
    /\ Running
    /\ f # maxLevel
    /\ maxLevel' = f
    /\ UNCHANGED <<now, tmr, shared, logger, fmtArgs, pc, op, target, args, calls, params, log, hist>>
    /\ UNCHANGED macroVars

\* ------------------------------------------------------------------ LoggingTimer
\* A faulty new, which builds the timer whether or not the level is enabled.
new_unconditional(site, name, extra_info, level, clk) ==
    [some |-> TRUE,
     level |-> level,
     start_time |-> clk,
     file |-> site.file,
     module_path |-> site.module_path,
     line |-> site.line,
     name |-> name,
     finished |-> FALSE,
     extra_info |-> extra_info]

\* LoggingTimer::new: Some(timer) when the level is enabled, started at the
\* instant clk that Instant::now() returns, None otherwise.
new(site, name, extra_info, level, clk) ==
    IF LogEnabled(level)
    THEN [some |-> TRUE,
          level |-> level,
          start_time |-> clk,
          file |-> site.file,
          module_path |-> site.module_path,
          line |-> site.line,
          name |-> name,
          finished |-> FALSE,
          extra_info |-> extra_info]
    ELSE NoTimer

\* The target string log_record gives a record.
TargetName(tg) ==
    CASE tg = "Starting" -> "TimerStarting"
      [] tg = "Executing" -> "TimerExecuting"
      [] tg = "Finished" -> "TimerFinished"

\* A faulty log_impl, which prints the per-call args before the extra info.
Message_args_first(t, tg, a, clk) ==
    (IF tg = "Starting"
     THEN << <<"name", t.name>> >>
     ELSE << <<"name", t.name>>, <<"Elapsed", elapsed(t, clk)>> >>)
    \o (IF IsSome(a) THEN << <<"args", a[1]>> >> ELSE <<>>)
    \o (IF IsSome(t.extra_info) THEN << <<"info", t.extra_info[1]>> >> ELSE <<>>)

\* A faulty log_impl, which prints the elapsed time in the Starting message too.
Message_always_elapsed(t, tg, a, clk) ==
    << <<"name", t.name>>, <<"Elapsed", elapsed(t, clk)>> >>
    \o (IF IsSome(t.extra_info) THEN << <<"info", t.extra_info[1]>> >> ELSE <<>>)
    \o (IF IsSome(a) THEN << <<"args", a[1]>> >> ELSE <<>>)

\* The message log_impl formats: the match on (target, extra_info, args).  A
\* message is the sequence of its comma-separated fields, each <<kind, value>>.
Message(t, tg, a, clk) ==
    CASE tg = "Starting" /\ IsSome(t.extra_info) /\ IsSome(a) ->
            << <<"name", t.name>>, <<"info", t.extra_info[1]>>, <<"args", a[1]>> >>
      [] tg = "Starting" /\ IsSome(t.extra_info) /\ ~IsSome(a) ->
            << <<"name", t.name>>, <<"info", t.extra_info[1]>> >>
      [] tg = "Starting" /\ ~IsSome(t.extra_info) /\ IsSome(a) ->
            << <<"name", t.name>>, <<"args", a[1]>> >>
      [] tg = "Starting" /\ ~IsSome(t.extra_info) /\ ~IsSome(a) ->
            << <<"name", t.name>> >>
      [] tg # "Starting" /\ IsSome(t.extra_info) /\ IsSome(a) ->
            << <<"name", t.name>>, <<"Elapsed", elapsed(t, clk)>>,
               <<"info", t.extra_info[1]>>, <<"args", a[1]>> >>
      [] tg # "Starting" /\ IsSome(t.extra_info) /\ ~IsSome(a) ->
            << <<"name", t.name>>, <<"Elapsed", elapsed(t, clk)>>, <<"info", t.extra_info[1]>> >>
      [] tg # "Starting" /\ ~IsSome(t.extra_info) /\ IsSome(a) ->
            << <<"name", t.name>>, <<"Elapsed", elapsed(t, clk)>>, <<"args", a[1]>> >>
      [] tg # "Starting" /\ ~IsSome(t.extra_info) /\ ~IsSome(a) ->
            << <<"name", t.name>>, <<"Elapsed", elapsed(t, clk)>> >>

\* A faulty log_record, which gives the record the place of its own log call
\* instead of the place the timer was made at.
log_record_own_site(t, tg, msg) ==
    [level |-> t.level,
     target |-> TargetName(tg),
     file |-> "src/lib.rs",
     module_path |-> "logging_timer",
     line |-> 275,
     args |-> msg]

\* The record log_record builds and hands to the logger.
log_record(t, tg, msg) ==
    [level |-> t.level,
     target |-> TargetName(tg),
     file |-> t.file,
     module_path |-> t.module_path,
     line |-> t.line,
     args |-> msg]

\* Where the owner stands after the drop of the timer: at the end of its
\* scope, or, when the timer was moved into a block of the function under an
\* attribute and dropped with it, in that function, which goes on.
AfterDrop == IF attr.macro # "none" /\ blockRun = None THEN "idle" ELSE "done"

\* The thread returns from the operation it runs: to its caller, or, from drop,
\* to where the drop leaves the owner.
Return(t) ==
    /\ pc' = Set(pc, t, IF op[t] = "drop" THEN AfterDrop ELSE "idle")
    /\ op' = Set(op, t, "none")
    /\ target' = Set(target, t, "none")
    /\ args' = Set(args, t, None)

\* A call of log_impl(tg, a) by thread t running operation o.
CallLogImpl(t, o, tg, a) ==
    /\ pc' = Set(pc, t, "log_impl")
    /\ op' = Set(op, t, o)
    /\ target' = Set(target, t, tg)
    /\ args' = Set(args, t, a)

\* A faulty log_impl, which goes on to format and log without asking whether
\* the level is enabled.
LogImpl_unconditional(t) ==
    /\ pc[t] = "log_impl"
    /\ pc' = Set(pc, t, "log_format")
    /\ UNCHANGED <<op, target, args, suppressed>>
    /\ UNCHANGED <<maxLevel, now, tmr, shared, logger, fmtArgs, calls, params, log,
                   ctor, ctorQuery, formats, nExec, finCalls, emittedBy, lateExec, elapsedCalls>>
    /\ UNCHANGED macroVars

\* log_impl, its first statement: return at once when the level is not enabled.
LogImpl(t) ==
    /\ pc[t] = "log_impl"
    /\ IF ~LogEnabled(tmr.level)
       THEN /\ Return(t)
            /\ suppressed' = Set(suppressed, target[t], suppressed[target[t]] + 1)
       ELSE /\ pc' = Set(pc, t, "log_format")
            /\ UNCHANGED <<op, target, args, suppressed>>
    /\ UNCHANGED <<maxLevel, now, tmr, shared, logger, fmtArgs, calls, params, log,
                   ctor, ctorQuery, formats, nExec, finCalls, emittedBy, lateExec, elapsedCalls>>
    /\ UNCHANGED macroVars

\* log_impl, the match: the arguments of format_args! are evaluated, among
\* them self.elapsed() for a message other than Starting, which reads the
\* clock.  The call of log_record is the next step of the thread.
LogFormat(t, clk) ==
    /\ pc[t] = "log_format"
    /\ now' = (IF target[t] = "Starting" THEN now ELSE clk)
    /\ fmtArgs' = Set(fmtArgs, t, Some(Message(tmr, target[t], args[t], clk)))
    /\ pc' = Set(pc, t, "log_record")
    /\ UNCHANGED <<maxLevel, tmr, shared, logger, op, target, args, calls, params, log, hist>>
    /\ UNCHANGED macroVars

\* log_record: the record is built and handed to the logger.
LogRecord(t) ==
    /\ pc[t] = "log_record"
    /\ log' = Append(log, log_record(tmr, target[t], fmtArgs[t][1]))
    /\ emittedBy' = Append(emittedBy, op[t])
    /\ fmtArgs' = Set(fmtArgs, t, None)
    /\ Return(t)
    /\ UNCHANGED <<maxLevel, now, tmr, shared, logger, calls, params,
                   ctor, ctorQuery, formats, nExec, finCalls, suppressed, lateExec, elapsedCalls>>
    /\ UNCHANGED macroVars

\* timer!(level; name [, format...]): the extra info is formatted, then
\* LoggingTimer::new is called with it.
TimerMacro(level, site, name, fmt, clk) ==
    /\ pc["main"] = "start"
    /\ formats' = formats + (IF IsSome(fmt) THEN 1 ELSE 0)
    /\ ctor' = "new"
    /\ ctorQuery' = IF LogEnabled(level) THEN "enabled" ELSE "disabled"
    /\ tmr' = new(site, name, fmt, level, clk)
    /\ now' = (IF tmr'.some THEN clk ELSE now)
    /\ params' = [site |-> site, name |-> name, extra_info |-> fmt, level |-> level]
    /\ pc' = Set(pc, "main", "idle")
    /\ UNCHANGED <<maxLevel, shared, logger, fmtArgs, op, target, args, calls, log,
                   nExec, finCalls, suppressed, emittedBy, lateExec, elapsedCalls>>
    /\ UNCHANGED macroVars

\* stimer!(level; name [, format...]): the extra info is formatted, then
\* LoggingTimer::with_start_message is called, here up to its log_enabled! test.
StimerMacro(level, site, name, fmt) ==
    /\ pc["main"] = "start"
    /\ formats' = formats + (IF IsSome(fmt) THEN 1 ELSE 0)
    /\ ctor' = "with_start_message"
    /\ ctorQuery' = IF LogEnabled(level) THEN "enabled" ELSE "disabled"
    /\ IF LogEnabled(level)
       THEN /\ pc' = Set(pc, "main", "wsm_new")
            /\ op' = Set(op, "main", "with_start_message")
       ELSE /\ pc' = Set(pc, "main", "idle")
            /\ op' = op
    /\ params' = [site |-> site, name |-> name, extra_info |-> fmt, level |-> level]
    /\ UNCHANGED <<maxLevel, now, tmr, shared, logger, fmtArgs, target, args, calls, log,
                   nExec, finCalls, suppressed, emittedBy, lateExec, elapsedCalls>>
    /\ UNCHANGED macroVars

\* A faulty with_start_message, which returns the timer without the call of
\* log_impl(TimerTarget::Starting, None).
WsmNew_silent(clk) ==
    /\ pc["main"] = "wsm_new"
    /\ LET r == new(params.site, params.name, params.extra_info, params.level, clk)
       IN IF r.some
          THEN /\ tmr' = r
               /\ now' = clk
               /\ pc' = Set(pc, "main", "idle")
               /\ op' = Set(op, "main", "none")
               /\ UNCHANGED <<target, args>>
          ELSE /\ pc' = Set(pc, "main", "panicked")
               /\ UNCHANGED <<now, tmr, op, target, args>>
    /\ UNCHANGED <<maxLevel, shared, logger, fmtArgs, calls, params, log, hist>>
    /\ UNCHANGED macroVars

\* with_start_message: Self::new(...).unwrap(), then the call of
\* log_impl(TimerTarget::Starting, None).  unwrap panics on None.
WsmNew(clk) ==
    /\ pc["main"] = "wsm_new"
    /\ LET r == new(params.site, params.name, params.extra_info, params.level, clk)
       IN IF r.some
          THEN /\ tmr' = r
               /\ now' = clk
               /\ CallLogImpl("main", "with_start_message", "Starting", None)
          ELSE /\ pc' = Set(pc, "main", "panicked")
               /\ UNCHANGED <<now, tmr, op, target, args>>
    /\ UNCHANGED <<maxLevel, shared, logger, fmtArgs, calls, params, log, hist>>
    /\ UNCHANGED macroVars

\* A faulty executing, which returns without calling log_impl.
executing_silent(t, a) ==
    UNCHANGED <<pc, op, target, args>>

\* A faulty executing, which logs with the target of finish.
executing_as_finished(t, a) ==
    CallLogImpl(t, "executing", "Finished", a)

\* LoggingTimer::executing: a call of log_impl(TimerTarget::Executing, args).
executing(t, a) ==
    CallLogImpl(t, "executing", "Executing", a)

\* A faulty finish, which does not test `finished` before it stores and logs.
finish_unguarded(t, o, a) ==
    /\ pc' = Set(pc, t, "fin_store")
    /\ op' = Set(op, t, o)
    /\ args' = Set(args, t, a)
    /\ UNCHANGED target

\* LoggingTimer::finish as called by operation o: the load of `finished` and
\* the test on it.  The store is the next step of the thread.
finish(t, o, a) ==
    IF ~tmr.finished
    THEN /\ pc' = Set(pc, t, "fin_store")
         /\ op' = Set(op, t, o)
         /\ args' = Set(args, t, a)
         /\ UNCHANGED target
    ELSE /\ pc' = Set(pc, t, IF o = "drop" THEN AfterDrop ELSE "idle")
         /\ UNCHANGED <<op, target, args>>

\* A faulty finish, which logs the Finished message and leaves `finished` as it is.
FinishStore_skipped(t) ==
    /\ pc[t] = "fin_store"
    /\ tmr' = tmr
    /\ CallLogImpl(t, op[t], "Finished", args[t])
    /\ UNCHANGED <<maxLevel, now, shared, logger, fmtArgs, calls, params, log, hist>>
    /\ UNCHANGED macroVars

\* A faulty finish, which sets `finished` only if the level is enabled.
FinishStore_when_enabled(t) ==
    /\ pc[t] = "fin_store"
    /\ tmr' = [tmr EXCEPT !.finished = LogEnabled(tmr.level)]
    /\ CallLogImpl(t, op[t], "Finished", args[t])
    /\ UNCHANGED <<maxLevel, now, shared, logger, fmtArgs, calls, params, log, hist>>
    /\ UNCHANGED macroVars

\* finish: self.finished.store(true), then the call of
\* log_impl(TimerTarget::Finished, args).
FinishStore(t) ==
    /\ pc[t] = "fin_store"
    /\ tmr' = [tmr EXCEPT !.finished = TRUE]
    /\ CallLogImpl(t, op[t], "Finished", args[t])
    /\ UNCHANGED <<maxLevel, now, shared, logger, fmtArgs, calls, params, log, hist>>
    /\ UNCHANGED macroVars

\* executing!(timer [, format...]): executing is called if the timer is Some.
ExecutingMacro(t, a) ==
    /\ t \in Active
    /\ Live
    /\ pc[t] = "idle"
    /\ calls < MaxCalls
    /\ calls' = calls + 1
    /\ IF tmr.some
       THEN /\ executing(t, a)
            /\ nExec' = nExec + 1
            /\ lateExec' = (lateExec \/ finCalls # <<>>)
       ELSE UNCHANGED <<pc, op, target, args, nExec, lateExec>>
    /\ UNCHANGED <<maxLevel, now, tmr, shared, logger, fmtArgs, params, log,
                   ctor, ctorQuery, formats, finCalls, suppressed, emittedBy, elapsedCalls>>
    /\ UNCHANGED macroVars

\* finish!(timer [, format...]): finish is called if the timer is Some.
FinishMacro(t, a) ==
    /\ t \in Active
    /\ Live
    /\ pc[t] = "idle"
    /\ calls < MaxCalls
    /\ calls' = calls + 1
    /\ IF tmr.some
       THEN /\ finish(t, "finish", a)
            /\ finCalls' = Append(finCalls, [args |-> a, finished |-> tmr.finished])
       ELSE UNCHANGED <<pc, op, target, args, finCalls>>
    /\ UNCHANGED <<maxLevel, now, tmr, shared, logger, fmtArgs, params, log,
                   ctor, ctorQuery, formats, nExec, suppressed, emittedBy, lateExec, elapsedCalls>>
    /\ UNCHANGED macroVars

\* A thread calls elapsed() on the timer: the clock is read and the time since
\* start_time is returned.
ElapsedCall(t, clk) ==
    /\ t \in Active
    /\ Live
    /\ pc[t] = "idle"
    /\ tmr.some
    /\ calls < MaxCalls
    /\ calls' = calls + 1
    /\ now' = clk
    /\ elapsedCalls' = Append(elapsedCalls, elapsed(tmr, clk))
    /\ UNCHANGED <<maxLevel, tmr, shared, logger, fmtArgs, pc, op, target, args, params, log,
                   ctor, ctorQuery, formats, nExec, finCalls, suppressed, emittedBy, lateExec>>
    /\ UNCHANGED macroVars

\* A faulty level, which starts the timer afresh.
level_restarts(t, l) == [t EXCEPT !.level = l, !.start_time = 0]

\* LoggingTimer::level (deprecated): the timer with its level replaced.
level(t, l) == [t EXCEPT !.level = l]

\* The owner calls level on its timer and keeps the timer it returns.  The
\* method takes the timer by value, so no other thread holds a reference.
LevelCall(l) ==
    /\ Live
    /\ ~shared
    /\ pc["main"] = "idle"
    /\ tmr.some
    /\ calls < MaxCalls
    /\ calls' = calls + 1
    /\ tmr' = level(tmr, l)
    /\ UNCHANGED <<maxLevel, now, shared, logger, fmtArgs, pc, op, target, args, params, log,
                   ctor, ctorQuery, formats, nExec, finCalls, suppressed, emittedBy, lateExec, elapsedCalls>>
    /\ UNCHANGED macroVars

\* A faulty drop, which ends the scope without calling finish.
drop_without_finish ==
    /\ pc' = Set(pc, "main", "done")
    /\ UNCHANGED <<op, target, args>>

\* A faulty drop, which logs the Finished message without looking at `finished`.
drop_logs_always ==
    IF tmr.some
    THEN CallLogImpl("main", "drop", "Finished", None)
    ELSE /\ pc' = Set(pc, "main", "done")
         /\ UNCHANGED <<op, target, args>>

\* Drop for LoggingTimer: self.finish(None).  Dropping None does nothing.
drop ==
    IF tmr.some
    THEN finish("main", "drop", None)
    ELSE /\ pc' = Set(pc, "main", AfterDrop)
         /\ UNCHANGED <<op, target, args>>

\* The owner's scope ends: no other thread holds a reference any more, and the
\* Option<LoggingTimer> is dropped.
ScopeExit ==
    /\ Live
    /\ \A t \in Threads : pc[t] = "idle"
    /\ drop
    /\ UNCHANGED <<maxLevel, now, tmr, shared, logger, fmtArgs, calls, params, log, hist>>
    /\ UNCHANGED macroVars

\* ------------------------------------------------------------------ strings
\* A Rust string is the sequence of its characters.  A character that cannot
\* be written in a string here stands as the name of its code point.
\* The characters char::is_whitespace holds of, which str::trim strips.
WhiteSpace ==
    {"\t", "\n", "U+000B", "\f", "\r", " ", "U+0085", "U+00A0", "U+1680",
     "U+2000", "U+2001", "U+2002", "U+2003", "U+2004", "U+2005", "U+2006", "U+2007",
     "U+2008", "U+2009", "U+200A", "U+2028", "U+2029", "U+202F", "U+205F", "U+3000"}
UpperCase == <<"A", "B", "C", "D", "E", "F", "G", "H", "I", "J", "K", "L", "M",
               "N", "O", "P", "Q", "R", "S", "T", "U", "V", "W", "X", "Y", "Z">>
LowerCase == <<"a", "b", "c", "d", "e", "f", "g", "h", "i", "j", "k", "l", "m",
               "n", "o", "p", "q", "r", "s", "t", "u", "v", "w", "x", "y", "z">>

\* char::to_ascii_lowercase
lower(c) ==
    IF \E i \in 1..Len(UpperCase) : UpperCase[i] = c
    THEN LowerCase[CHOOSE i \in 1..Len(UpperCase) : UpperCase[i] = c]
    ELSE c

\* str::to_ascii_lowercase
to_ascii_lowercase(s) == [i \in 1..Len(s) |-> lower(s[i])]

\* str::trim_start_matches and str::trim_end_matches, for a set of characters.
RECURSIVE trim_start_matches(_, _)
trim_start_matches(s, cs) ==
    IF s # <<>> /\ Head(s) \in cs THEN trim_start_matches(Tail(s), cs) ELSE s

RECURSIVE trim_end_matches(_, _)
trim_end_matches(s, cs) ==
    IF s # <<>> /\ s[Len(s)] \in cs
    THEN trim_end_matches(SubSeq(s, 1, Len(s) - 1), cs)
    ELSE s

\* str::trim_matches, and str::trim, which trims white space.
trim_matches(s, cs) == trim_end_matches(trim_start_matches(s, cs), cs)
trim(s) == trim_matches(s, WhiteSpace)

\* str::find: the place of the first occurrence of pat in s, 0 if there is none.
find(s, pat) ==
    LET at == {i \in 1..(Len(s) - Len(pat) + 1) : SubSeq(s, i, i + Len(pat) - 1) = pat}
    IN IF at = {} THEN 0 ELSE CHOOSE i \in at : \A j \in at : i <= j

\* str::contains
contains(s, pat) == find(s, pat) # 0

\* str::replacen: the first n occurrences of pat in s replaced by to.
RECURSIVE replacen(_, _, _, _)
replacen(s, pat, to, n) ==
    IF n = 0 \/ find(s, pat) = 0
    THEN s
    ELSE SubSeq(s, 1, find(s, pat) - 1) \o to
         \o replacen(SubSeq(s, find(s, pat) + Len(pat), Len(s)), pat, to, n - 1)

\* ------------------------------------------------------------------ the attributes
\* The texts of the proc-macro crate.
DEFAULT_LEVEL == <<"d", "e", "b", "u", "g">>
DEFAULT_NAME_PATTERN == <<"{", "}">>
LevelNames == {<<"e", "r", "r", "o", "r">>, <<"w", "a", "r", "n">>, <<"i", "n", "f", "o">>,
               <<"d", "e", "b", "u", "g">>, <<"t", "r", "a", "c", "e">>,
               <<"n", "e", "v", "e", "r">>}
never == <<"n", "e", "v", "e", "r">>

\* proc_macro::TokenTree: a literal, an identifier or a punctuation mark, with
\* the text to_string gives; a string literal comes with its double quotes.
Literal(text) == [kind |-> "Literal", text |-> text]
Ident(text) == [kind |-> "Ident", text |-> text]
Punct(text) == [kind |-> "Punct", text |-> text]
StrLit(s) == Literal(<<"\"">> \o s \o <<"\"">>)

\* extract_literal: the text of a literal, trimmed of white space, of double
\* quotes and of white space again; a panic for any other token.
extract_literal(token_tree) ==
    IF token_tree.kind = "Literal"
    THEN [panic |-> FALSE, s |-> trim(trim_matches(trim(token_tree.text), {"\""}))]
    ELSE [panic |-> TRUE, s |-> <<>>]

\* What get_log_level_and_name_pattern returns, and its panic.
Pair(l, name_pattern) == [panic |-> FALSE, level |-> l, name_pattern |-> name_pattern]
Panic == [panic |-> TRUE, level |-> <<>>, name_pattern |-> <<>>]

\* A faulty filter, which keeps every token.
macro_args_unfiltered(metadata) == metadata

\* The tokens of the attribute that are literals: macro_args.
macro_args_of(metadata) == SelectSeq(metadata, LAMBDA token : token.kind = "Literal")

\* A faulty one-argument case, which returns the lowered text as the pattern.
one_argument_lowered(first_arg) ==
    IF to_ascii_lowercase(first_arg) \in LevelNames
    THEN Pair(to_ascii_lowercase(first_arg), DEFAULT_NAME_PATTERN)
    ELSE Pair(DEFAULT_LEVEL, to_ascii_lowercase(first_arg))

\* get_log_level_and_name_pattern with one argument: a level name in any
\* letter case, or else the name pattern, as written and not lowered.
one_argument(first_arg) ==
    IF to_ascii_lowercase(first_arg) \in LevelNames
    THEN Pair(to_ascii_lowercase(first_arg), DEFAULT_NAME_PATTERN)
    ELSE Pair(DEFAULT_LEVEL, first_arg)

\* A faulty two-argument case, which takes the default level when the first
\* argument names no level.
two_arguments_lenient(first_arg, second) ==
    LET second_arg == IF second.s = <<>> THEN second.s \o DEFAULT_NAME_PATTERN ELSE second.s
    IN IF second.panic THEN Panic
       ELSE IF to_ascii_lowercase(first_arg) \in LevelNames
            THEN Pair(to_ascii_lowercase(first_arg), second_arg)
            ELSE Pair(DEFAULT_LEVEL, second_arg)

\* get_log_level_and_name_pattern with two arguments: the first must be a level
\* name; an empty second argument becomes the default pattern.
two_arguments(first_arg, second) ==
    LET second_arg == IF second.s = <<>> THEN second.s \o DEFAULT_NAME_PATTERN ELSE second.s
    IN IF to_ascii_lowercase(first_arg) \in LevelNames
       THEN IF second.panic THEN Panic ELSE Pair(to_ascii_lowercase(first_arg), second_arg)
       ELSE Panic

\* A faulty get_log_level_and_name_pattern, which looks at the first two
\* literals and lets any further ones pass.
get_log_level_and_name_pattern_first_two(metadata) ==
    LET macro_args == macro_args_of(metadata)
        first == extract_literal(macro_args[1])
    IN IF macro_args = <<>> THEN Pair(DEFAULT_LEVEL, DEFAULT_NAME_PATTERN)
       ELSE IF first.panic THEN Panic
       ELSE IF contains(first.s, <<"{", "}">>) /\ Len(macro_args) >= 2 THEN Panic
       ELSE IF Len(macro_args) = 1 THEN one_argument(first.s)
       ELSE two_arguments(first.s, extract_literal(macro_args[2]))

\* get_log_level_and_name_pattern
get_log_level_and_name_pattern(metadata) ==
    LET macro_args == macro_args_of(metadata)
        first == extract_literal(macro_args[1])
    IN IF macro_args = <<>> THEN Pair(DEFAULT_LEVEL, DEFAULT_NAME_PATTERN)
       ELSE IF Len(macro_args) > 2 THEN Panic
       ELSE IF first.panic THEN Panic
       ELSE IF contains(first.s, <<"{", "}">>) /\ Len(macro_args) = 2 THEN Panic
       ELSE IF Len(macro_args) = 1 THEN one_argument(first.s)
       ELSE two_arguments(first.s, extract_literal(macro_args[2]))

\* A faulty get_timer_name, which replaces every marker of the pattern.
get_timer_name_every_marker(name_pattern, fn_name) ==
    LET fn_name_with_parens == fn_name \o <<"(", ")">>
    IN replacen(name_pattern, <<"{", "}">>, fn_name_with_parens, Len(name_pattern))

\* get_timer_name
get_timer_name(name_pattern, fn_name) ==
    LET fn_name_with_parens == fn_name \o <<"(", ")">>
    IN replacen(name_pattern, <<"{", "}">>, fn_name_with_parens, 1)

\* The function an attribute is put on: its name and the statements of its
\* body, which for the function as written is its own block.
\* An expression of a let: a literal, or the name of a binding, whose value
\* the let moves.
Lit(value) == [expr |-> "lit", value |-> value]
Var(name) == [expr |-> "path", name |-> name]
\* The statements of a block: let name = value; finish!(name); a block.
Let(name, value) == [stmt |-> "let", name |-> name, value |-> value]
FinishStmt(name) == [stmt |-> "finish!", name |-> name]
BlockOf(stmts) == [stmt |-> "block", stmts |-> stmts]
Block == BlockOf(<<>>)
\* The block of test_hygiene, which binds a number to the name _tmr.
HygieneValue == 3
HygieneBlock == BlockOf(<<Let("_tmr", Lit(HygieneValue))>>)
\* Blocks that name the _tmr the attribute writes in front of them, which
\* they can: the attribute's tokens have the span of the place of the call.
\* { finish!(_tmr); } and { { let x = _tmr; } }.
FinishBlock == BlockOf(<<FinishStmt("_tmr")>>)
MoveBlock == BlockOf(<<BlockOf(<<Let("x", Var("_tmr"))>>)>>)

\* A let of the statements moves the function's _tmr: it names _tmr as its
\* value, and no let before it in the same block has bound that name anew.
MovesTmr(stmts) ==
    \E i \in DOMAIN stmts :
        /\ stmts[i].stmt = "let"
        /\ stmts[i].value = Var("_tmr")
        /\ \A j \in 1..(i - 1) : ~(stmts[j].stmt = "let" /\ stmts[j].name = "_tmr")

\* A statement of the block names the _tmr of the function around it.
NamesTmr(block) ==
    \E i \in DOMAIN block.stmts :
        \/ block.stmts[i].stmt = "finish!" /\ block.stmts[i].name = "_tmr"
        \/ block.stmts[i].stmt = "block" /\ MovesTmr(block.stmts[i].stmts)

ItemFn(ident, body) == [ident |-> ident, body |-> body]
\* let _tmr = timer!(log_level; timer_name), or the same with stimer!.
LetTmr(macro, log_level, timer_name) ==
    [stmt |-> "let _tmr", macro |-> macro, log_level |-> log_level, timer_name |-> timer_name]

\* What an attribute returns: the tokens of a function, or a panic, which
\* fails the build.
Tokens(item) == [panic |-> FALSE, item |-> item]
BuildFailure == [panic |-> TRUE, item |-> ItemFn(<<>>, <<>>)]

\* The path of the log::Level the attribute writes for a level name.
LogLevelPath(l) ==
    CASE l = <<"e", "r", "r", "o", "r">> -> Some("Error")
      [] l = <<"w", "a", "r", "n">> -> Some("Warn")
      [] l = <<"i", "n", "f", "o">> -> Some("Info")
      [] l = <<"d", "e", "b", "u", "g">> -> Some("Debug")
      [] l = <<"t", "r", "a", "c", "e">> -> Some("Trace")
      [] OTHER -> None

\* A faulty attribute, which writes the let of the timer after the block.
instrument_block_first(macro, metadata, input) ==
    LET r == get_log_level_and_name_pattern(metadata)
        timer_name == get_timer_name(r.name_pattern, input.ident)
        log_level == LogLevelPath(r.level)
    IN IF r.panic THEN BuildFailure
       ELSE IF r.level # never
            THEN IF IsSome(log_level)
                 THEN Tokens(ItemFn(input.ident,
                                    input.body \o <<LetTmr(macro, log_level[1], timer_name)>>))
                 ELSE BuildFailure
            ELSE Tokens(input)

\* What #[time] and #[stime] do alike, with macro the timer macro they write.
instrument(macro, metadata, input) ==
    LET r == get_log_level_and_name_pattern(metadata)
        timer_name == get_timer_name(r.name_pattern, input.ident)
        log_level == LogLevelPath(r.level)
    IN IF r.panic THEN BuildFailure
       ELSE IF r.level # never
            THEN IF IsSome(log_level)
                 THEN Tokens(ItemFn(input.ident,
                                    <<LetTmr(macro, log_level[1], timer_name)>> \o input.body))
                 ELSE BuildFailure
            ELSE Tokens(input)

\* A faulty #[time], which has no branch for "never".
time_without_never(metadata, input) ==
    LET r == get_log_level_and_name_pattern(metadata)
        timer_name == get_timer_name(r.name_pattern, input.ident)
        log_level == LogLevelPath(r.level)
    IN IF r.panic \/ ~IsSome(log_level)
       THEN BuildFailure
       ELSE Tokens(ItemFn(input.ident,
                          <<LetTmr("timer", log_level[1], timer_name)>> \o input.body))

\* #[time]: the function with a timer! in front of its block.
time(metadata, input) == instrument("timer", metadata, input)

\* #[stime]: the function with a stimer! in front of its block.
stime(metadata, input) == instrument("stimer", metadata, input)

\* The arguments written in the attribute's parentheses.
MacroArgs == {
    StrLit(<<"i", "n", "f", "o">>),
    StrLit(<<"W", "a", "r", "n">>),
    StrLit(<<"n", "e", "v", "e", "r">>),
    StrLit(<<"N", "e", "v", "e", "r">>),
    StrLit(<<"N", "O", "B", "R", "A", "C", "K", "E", "T", "S">>),
    StrLit(<<"S", ":", ":", "{", "}", "/", "{", "}">>),
    StrLit(<<>>),
    StrLit(<<" ", "\f", "i", "n", "f", "o", "U+000B", " ">>),
    Ident(<<"i", "n", "f", "o">>)}

\* The token stream of the arguments a: the arguments with commas between them.
RECURSIVE TokenStream(_)
TokenStream(a) ==
    IF Len(a) <= 1 THEN a ELSE <<Head(a), Punct(<<",">>)>> \o TokenStream(Tail(a))

\* The attributes put on the function new, with up to MaxArgs arguments.
FnName == <<"n", "e", "w">>
\* The function the attribute returns is compiled: a block that names _tmr
\* needs the let of the attribute in front of it.  A panic of the attribute
\* ends the build before that.
Compiles(a) ==
    LET e == IF a.macro = "time" THEN time(a.metadata, a.input) ELSE stime(a.metadata, a.input)
    IN \/ e.panic
       \/ e.item.body[1].stmt = "let _tmr"
       \/ ~NamesTmr(a.input.body[1])
\* The blocks that name _tmr stand under the attributes of one argument at most.
Attributes ==
    {a \in {[macro |-> m, metadata |-> TokenStream(ts), input |-> ItemFn(FnName, <<b>>)] :
                m \in {"time", "stime"},
                ts \in UNION {[1..n -> MacroArgs] : n \in 0..MaxArgs},
                b \in {Block, HygieneBlock, FinishBlock, MoveBlock}} :
        /\ Compiles(a)
        /\ NamesTmr(a.input.body[1]) => Len(a.metadata) <= 1}
NoAttr == [macro |-> "none", metadata |-> <<>>, input |-> ItemFn(<<>>, <<>>)]
NoExpansion == Tokens(ItemFn(<<>>, <<>>))

\* What file!(), module_path!() and line!() give in the function the attribute made.
AttrSite == [file |-> "examples/logging_demo.rs", module_path |-> "logging_demo", line |-> 166]

\* The compiler runs the attribute on the function.  A panic ends the build.
Expand ==
    /\ pc["main"] = "expand"
    /\ parsed' = get_log_level_and_name_pattern(attr.metadata)
    /\ expansion' = IF attr.macro = "time"
                    THEN time(attr.metadata, attr.input)
                    ELSE stime(attr.metadata, attr.input)
    /\ pc' = Set(pc, "main", IF expansion'.panic THEN "build_failed" ELSE "start")
    /\ UNCHANGED <<maxLevel, now, tmr, shared, logger, fmtArgs, op, target, args, calls, params, log, hist,
                   attr, blockRun, bodyAt>>

\* The function is called and its first statement is let _tmr = timer!(...).
LetTimer(clk) ==
    /\ attr.macro # "none"
    /\ pc["main"] = "start"
    /\ expansion.item.body[1].stmt = "let _tmr"
    /\ expansion.item.body[1].macro = "timer"
    /\ TimerMacro(expansion.item.body[1].log_level, AttrSite,
                  expansion.item.body[1].timer_name, None, clk)

\* The function is called and its first statement is let _tmr = stimer!(...).
LetStimer ==
    /\ attr.macro # "none"
    /\ pc["main"] = "start"
    /\ expansion.item.body[1].stmt = "let _tmr"
    /\ expansion.item.body[1].macro = "stimer"
    /\ StimerMacro(expansion.item.body[1].log_level, AttrSite,
                   expansion.item.body[1].timer_name, None)

\* The function's own block, and the place before its next statement of the
\* given kind: the block is the first statement of the function as written
\* and follows the let in the function the attribute made.
OwnBlock == expansion.item.body[Len(expansion.item.body)]
AtStmt(kind) ==
    /\ attr.macro # "none"
    /\ blockRun = None
    /\ \/ pc["main"] = "start" /\ expansion.item.body[1].stmt = "block"
       \/ pc["main"] = "idle" /\ Live
    /\ bodyAt < Len(OwnBlock.stmts)
    /\ OwnBlock.stmts[bodyAt + 1].stmt = kind

\* A let of the block runs: it makes a binding of the block, whatever its name,
\* and leaves the bindings of the function as they are.
BodyLet ==
    /\ AtStmt("let")
    /\ bodyAt' = bodyAt + 1
    /\ UNCHANGED <<maxLevel, now, tmr, shared, logger, fmtArgs, pc, op, target, args, calls,
                   params, log, hist, attr, parsed, expansion, blockRun>>

\* finish!(_tmr) in the block: if let Some(ref tmr) = _tmr { tmr.finish(None) }.
BodyFinish ==
    /\ AtStmt("finish!")
    /\ bodyAt' = bodyAt + 1
    /\ IF tmr.some
       THEN /\ finish("main", "finish", None)
            /\ finCalls' = Append(finCalls, [args |-> None, finished |-> tmr.finished])
       ELSE UNCHANGED <<pc, op, target, args, finCalls>>
    /\ UNCHANGED <<maxLevel, now, tmr, shared, logger, fmtArgs, calls, params, log,
                   ctor, ctorQuery, formats, nExec, suppressed, emittedBy, lateExec,
                   elapsedCalls, attr, parsed, expansion, blockRun>>

\* A block inside the block runs and ends: when a let of it moved _tmr, the
\* timer is dropped with the bindings of that block.
BodyBlock ==
    /\ AtStmt("block")
    /\ bodyAt' = bodyAt + 1
    /\ IF MovesTmr(OwnBlock.stmts[bodyAt + 1].stmts)
       THEN drop
       ELSE UNCHANGED <<pc, op, target, args>>
    /\ UNCHANGED <<maxLevel, now, tmr, shared, logger, fmtArgs, calls, params, log, hist,
                   attr, parsed, expansion, blockRun>>

\* The function's _tmr was moved out of its binding by a statement that has run.
Moved ==
    \E i \in 1..bodyAt :
        OwnBlock.stmts[i].stmt = "block" /\ MovesTmr(OwnBlock.stmts[i].stmts)

\* The function's own block has run all its statements and ends.
RunBlock ==
    /\ attr.macro # "none"
    /\ blockRun = None
    /\ \/ pc["main"] = "start" /\ expansion.item.body[1].stmt = "block"
       \/ pc["main"] = "idle" /\ Live
    /\ bodyAt = Len(OwnBlock.stmts)
    /\ blockRun' = Some(Len(log))
    /\ pc' = Set(pc, "main", "idle")
    /\ UNCHANGED <<maxLevel, now, tmr, shared, logger, fmtArgs, op, target, args, calls,
                   params, log, hist, attr, parsed, expansion, bodyAt>>

\* The function returns: _tmr, if the function has one and still holds it, is
\* dropped.
FnReturn ==
    /\ attr.macro # "none"
    /\ blockRun # None
    /\ IF ctor # "none" /\ ~Moved
       THEN ScopeExit
       ELSE /\ pc["main"] = "idle"
            /\ pc' = Set(pc, "main", "done")
            /\ UNCHANGED <<maxLevel, now, tmr, shared, logger, fmtArgs, op, target, args,
                           calls, params, log, hist, macroVars>>

\* ------------------------------------------------------------------ the system
NoParams == [site |-> CHOOSE s \in CallSites : TRUE, name |-> "", extra_info |-> None, level |-> "Off"]

\* The state before the timer is constructed, but for where the program stands.
StartTimer ==
    /\ maxLevel \in SetFilters
    /\ logger \in LoggerFilters
    /\ fmtArgs = [t \in Threads |-> None]
    /\ now = 0
    /\ tmr = NoTimer
    /\ op = [t \in Threads |-> "none"]
    /\ target = [t \in Threads |-> "none"]
    /\ args = [t \in Threads |-> None]
    /\ calls = 0
    /\ params = NoParams
    /\ log = <<>>
    /\ ctor = "none"
    /\ ctorQuery = "unasked"
    /\ formats = 0
    /\ nExec = 0
    /\ finCalls = <<>>
    /\ suppressed = [tg \in {"Starting", "Executing", "Finished"} |-> 0]
    /\ emittedBy = <<>>
    /\ lateExec = FALSE
    /\ elapsedCalls = <<>>

\* The state before timer! or stimer! is invoked; no attribute is in play.
Start ==
    /\ StartTimer
    /\ pc = [t \in Threads |-> IF t = "main" THEN "start" ELSE "idle"]
    /\ attr = NoAttr
    /\ parsed = Pair(<<>>, <<>>)
    /\ expansion = NoExpansion
    /\ blockRun = None
    /\ bodyAt = 0

\* The state before the compiler runs an attribute on the function new.
InitAttr ==
    /\ StartTimer
    /\ shared = FALSE
    /\ pc = [t \in Threads |-> IF t = "main" THEN "expand" ELSE "idle"]
    /\ attr \in Attributes
    /\ parsed = Pair(<<>>, <<>>)
    /\ expansion = NoExpansion
    /\ blockRun = None
    /\ bodyAt = 0

\* The timer is used by its owner alone, or shared by reference with the worker
\* thread as well.
Init == Start /\ shared \in BOOLEAN

\* The timer is used by the thread that owns it only.
InitSeq == Start /\ shared = FALSE

Next ==
    \/ \E f \in SetFilters : SetMaxLevel(f)
    \/ \E l \in TimerLevels, s \in CallSites, n \in Names, f \in FormatArgs, c \in Clock :
          TimerMacro(l, s, n, f, c)
    \/ \E l \in TimerLevels, s \in CallSites, n \in Names, f \in FormatArgs : StimerMacro(l, s, n, f)
    \/ \E c \in Clock : WsmNew(c)
    \/ \E t \in Threads : LogImpl(t)
    \/ \E t \in Threads, c \in Clock : LogFormat(t, c)
    \/ \E t \in Threads : LogRecord(t)
    \/ \E t \in Threads, a \in CallArgs : ExecutingMacro(t, a)
    \/ \E t \in Threads, a \in CallArgs : FinishMacro(t, a)
    \/ \E t \in Threads : FinishStore(t)
    \/ \E l \in TimerLevels : LevelCall(l)
    \/ \E t \in Threads, c \in Clock : ElapsedCall(t, c)
    \/ ScopeExit

Spec == Init /\ [][Next]_vars

SpecSeq == InitSeq /\ [][Next]_vars

\* A function under an attribute: the build, then one call of the function.
NextAttr ==
    \/ \E f \in SetFilters : SetMaxLevel(f)
    \/ Expand
    \/ \E c \in Clock : LetTimer(c)
    \/ LetStimer
    \/ \E c \in Clock : WsmNew(c)
    \/ LogImpl("main")
    \/ \E c \in Clock : LogFormat("main", c)
    \/ LogRecord("main")
    \/ FinishStore("main")
    \/ BodyLet
    \/ BodyFinish
    \/ BodyBlock
    \/ RunBlock
    \/ FnReturn

SpecAttr == InitAttr /\ [][NextAttr]_vars

\* ------------------------------------------------------------------ properties
Done == pc["main"] = "done"

\* The constructor has returned to its caller.
CtorReturned ==
    /\ ctor # "none"
    /\ pc["main"] \notin {"start", "wsm_new", "panicked"}
    /\ op["main"] # "with_start_message"

Records(tg) == {i \in 1..Len(log) : log[i].target = tg}

\* The extra args a message carries: Some(a) if it has an args field, else None.
ArgsOf(msg) ==
    IF \E j \in 1..Len(msg) : msg[j][1] = "args"
    THEN Some(msg[CHOOSE j \in 1..Len(msg) : msg[j][1] = "args"][2])
    ELSE None

\* C1, as stated: whatever executing and finish calls one thread makes on a
\* timer, exactly one TimerFinished record has been emitted when its drop completes.
C1_ExactlyOneFinishedAtDrop ==
    (Done /\ tmr.some) => Count("TimerFinished") = 1

\* C1, amended: in the use by one thread, never more than one TimerFinished record
\* is emitted, and when the drop completes exactly one log_impl call for Finished
\* has been made: it emitted the one record, or it found the level not enabled
\* and emitted none.
C1_OneFinishedUnlessDisabled ==
    /\ Count("TimerFinished") <= 1
    /\ (Done /\ tmr.some) => Count("TimerFinished") + suppressed["Finished"] = 1

\* The timer was finished twice explicitly, then dropped, and emitted one record.
C1_Witness ==
    /\ Done
    /\ tmr.some
    /\ Len(finCalls) = 2
    /\ Count("TimerFinished") = 1

\* C2, as stated: when two threads sharing the timer call finish concurrently,
\* under every interleaving exactly one of them emits the TimerFinished record,
\* never zero and never two.
C2_OneFinishedUnderRace ==
    /\ Count("TimerFinished") <= 1
    /\ (/\ Len(finCalls) >= 2
        /\ \A t \in Threads : pc[t] = "idle"
        /\ suppressed["Finished"] = 0)
       => Count("TimerFinished") = 1

\* C3: a finish call on a timer whose finished flag is already true emits no
\* record, changes no field of the timer and returns at once.
C3_FinishIdempotent ==
    [][(Len(finCalls') > Len(finCalls) /\ tmr.finished)
         => (log' = log /\ tmr' = tmr /\ pc' = pc /\ op' = op
             /\ target' = target /\ args' = args /\ suppressed' = suppressed)]_vars

\* finish was called on a finished timer, and the timer has its one record.
C3_Witness ==
    /\ Len(finCalls) = 2
    /\ finCalls[2].finished
    /\ \A t \in Threads : pc[t] = "idle"
    /\ Count("TimerFinished") = 1

\* C4: if finish was called before the drop, the drop emits no record, and every
\* TimerFinished record was emitted by an explicit finish call and carries that
\* call's extra args; used by one thread, it is the first call's, and the only one.
C4_ExplicitFinishSuppressesDrop ==
    finCalls # <<>> =>
        /\ \A i \in 1..Len(log) : emittedBy[i] # "drop"
        /\ \A i \in Records("TimerFinished") :
              /\ emittedBy[i] = "finish"
              /\ \E k \in 1..Len(finCalls) :
                    /\ ~finCalls[k].finished
                    /\ finCalls[k].args = ArgsOf(log[i].args)
        /\ ~shared =>
              /\ Count("TimerFinished") <= 1
              /\ \A i \in Records("TimerFinished") : ArgsOf(log[i].args) = finCalls[1].args

\* finish!(tmr, "A") was called, the timer was dropped, and the one record carries "A".
C4_Witness ==
    /\ Done
    /\ finCalls # <<>>
    /\ finCalls[1].args = Some("A")
    /\ Count("TimerFinished") = 1
    /\ \A i \in Records("TimerFinished") : ArgsOf(log[i].args) = Some("A")

\* C5, as stated: with_start_message emits exactly one TimerStarting record before
\* it returns, and before any other record of the timer.
C5_StartingExactlyOnce ==
    (ctor = "with_start_message" /\ CtorReturned /\ tmr.some)
        => (Count("TimerStarting") = 1 /\ log[1].target = "TimerStarting")

\* C5, amended: a TimerStarting record is emitted by with_start_message only,
\* inside the constructor and as the first record of the timer; new emits none;
\* when with_start_message returns a timer it has made exactly one log_impl call
\* for Starting, which emitted the one record or found the level not enabled
\* any more and emitted none.
C5_StartingOnlyInConstructor ==
    /\ \A i \in Records("TimerStarting") :
          i = 1 /\ emittedBy[i] = "with_start_message" /\ ctor = "with_start_message"
    /\ ctor = "new" => Count("TimerStarting") = 0
    /\ (ctor = "with_start_message" /\ CtorReturned /\ tmr.some)
          => Count("TimerStarting") + suppressed["Starting"] = 1
    /\ op["main"] = "with_start_message" => log = <<>>

\* stimer! returned a timer whose first record is its TimerStarting record, and
\* later records follow it.
C5_Witness ==
    /\ ctor = "with_start_message"
    /\ CtorReturned
    /\ Count("TimerStarting") = 1
    /\ Len(log) >= 3

\* C6, as stated: n executing calls followed by finish or by scope exit emit
\* exactly n TimerExecuting records, each before the TimerFinished record.
C6_ExactlyNExecuting ==
    (Done /\ tmr.some /\ ~lateExec) =>
        /\ Count("TimerExecuting") = nExec
        /\ \A i \in Records("TimerExecuting"), j \in Records("TimerFinished") : i < j

\* C6, amended: n executing calls followed by finish or by scope exit emit at
\* most n TimerExecuting records, one for each call that found the level enabled
\* and none for a call that found it not enabled, each before the TimerFinished
\* record.
C6_ExecutingBeforeFinished ==
    /\ Count("TimerExecuting") <= nExec
    /\ (\A t \in Threads : pc[t] \in {"idle", "done"} /\ tmr.some)
          => Count("TimerExecuting") + suppressed["Executing"] = nExec
    /\ ~lateExec =>
          \A i \in Records("TimerExecuting"), j \in Records("TimerFinished") : i < j

\* Two executing calls, then scope exit: two TimerExecuting records, then the
\* TimerFinished record.
C6_Witness ==
    /\ Done
    /\ nExec = 2
    /\ ~lateExec
    /\ Count("TimerExecuting") = 2
    /\ Count("TimerFinished") = 1
    /\ log[Len(log)].target = "TimerFinished"

\* C7, as stated: no TimerExecuting record is ever emitted after the timer's
\* TimerFinished record, executing called after finish included.
C7_NoExecutingAfterFinished ==
    \A i \in Records("TimerFinished"), j \in Records("TimerExecuting") : j < i

\* C8: if the level is not enabled when the constructor is called, it returns
\* None and no record of any phase is ever emitted: not by the constructor, not
\* by a later executing! or finish!, not at scope exit.
C8_DisabledLevelNoRecords ==
    ctorQuery = "disabled" =>
        /\ ~tmr.some
        /\ log = <<>>
        /\ \A t \in Threads : pc[t] \in {"idle", "done"}
        /\ \A tg \in DOMAIN suppressed : suppressed[tg] = 0

\* The constructor returned None; the macros were then invoked and the scope
\* ended with every level enabled, and there is still no record.
C8_Witness ==
    /\ ctorQuery = "disabled"
    /\ Done
    /\ calls = MaxCalls
    /\ maxLevel = "Trace"
    /\ logger = "Trace"
    /\ log = <<>>

\* C9, as stated: if the level is not enabled at construction time, timer! and
\* stimer! with format arguments perform no formatting of the extra info.
C9_NoFormatWhenDisabled ==
    ctorQuery = "disabled" => formats = 0

\* C10, as stated: no operation panics, also when the enabled levels change
\* between two enablement queries of one operation.
C10_NoPanic ==
    \A t \in Threads : pc[t] # "panicked"

\* C11: the finished flag is false when the constructor returns the timer,
\* no operation ever takes it from true back to false, and it is true when the
\* drop has completed: it goes from false to true exactly once in the lifetime.
C11_FinishedSetOnce ==
    /\ [][/\ (~tmr.some /\ tmr'.some) => ~tmr'.finished
          /\ tmr.some => tmr'.some
          /\ (tmr.some /\ tmr.finished) => tmr'.finished]_vars
    /\ []((Done /\ tmr.some) => tmr.finished)

\* The timer was finished, then its level was changed and it was dropped: the
\* flag is still true.
C11_Witness ==
    /\ Done
    /\ tmr.some
    /\ tmr.finished
    /\ tmr.level # params.level
    /\ Len(finCalls) = 1
    /\ Count("TimerFinished") = 1

\* C12: every record of the timer, Starting, Executing or Finished, carries the
\* file, module path and line the constructor was called with and the timer's
\* name; no operation changes these fields of the timer, so all its records
\* share the place of the creation call.
C12_RecordsCarryCallSite ==
    /\ tmr.some =>
          /\ tmr.file = params.site.file
          /\ tmr.module_path = params.site.module_path
          /\ tmr.line = params.site.line
          /\ tmr.name = params.name
    /\ \A i \in 1..Len(log) :
          /\ log[i].file = params.site.file
          /\ log[i].module_path = params.site.module_path
          /\ log[i].line = params.site.line
          /\ log[i].args[1] = <<"name", params.name>>

\* stimer! made the timer at line 22 of the demo; its Starting, Executing and
\* Finished records were emitted and the timer was dropped.
C12_Witness ==
    /\ Done
    /\ params.site.line = 22
    /\ Count("TimerStarting") = 1
    /\ Count("TimerExecuting") = 1
    /\ Count("TimerFinished") = 1
    /\ \A i \in 1..Len(log) : log[i].line = 22 /\ log[i].args[1][2] = "MAIN"

\* C13, as stated: the level of a timer is fixed at construction: whatever
\* public operations are called on it, every record it emits carries the level
\* passed to its constructor, and that level is the one the timer holds and
\* log_impl tests.
C13_LevelFixedAtConstruction ==
    /\ tmr.some => tmr.level = params.level
    /\ \A i \in 1..Len(log) : log[i].level = params.level

\* The field of a message that an optional value gives: one field, or none.
Field(kind, o) == IF IsSome(o) THEN << <<kind, o[1]>> >> ELSE <<>>

\* C14: an Executing or Finished message is the timer's name, then the elapsed
\* time, then the extra info if the timer has one, then the per-call args if
\* the call gave any, in this order; name and elapsed time are always there,
\* and the info and the args are there or not independently of each other.
C14_ExecutingFinishedMessage ==
    /\ tmr.some =>
          \A tg \in {"Executing", "Finished"}, a \in CallArgs, c \in Clock :
              Message(tmr, tg, a, c) =
                  << <<"name", tmr.name>>, <<"Elapsed", c - tmr.start_time>> >>
                  \o Field("info", tmr.extra_info) \o Field("args", a)
    /\ \A i \in Records("TimerExecuting") \cup Records("TimerFinished") :
          \E a \in CallArgs, e \in 0..MaxTime :
              log[i].args = << <<"name", params.name>>, <<"Elapsed", e>> >>
                            \o Field("info", params.extra_info) \o Field("args", a)

\* A timer with extra info emitted an Executing record with per-call args and a
\* Finished record without, the second one later on the clock.
C14_Witness ==
    /\ Done
    /\ Len(log) = 2
    /\ log[1].target = "TimerExecuting"
    /\ log[1].args = << <<"name", "MAIN">>, <<"Elapsed", 0>>, <<"info", "I">>, <<"args", "A">> >>
    /\ log[2].target = "TimerFinished"
    /\ log[2].args = << <<"name", "MAIN">>, <<"Elapsed", 1>>, <<"info", "I">> >>

\* C15: a Starting message never has the elapsed time: it is the timer's name,
\* then the extra info if the timer has one, then the extra args if any are
\* given; with_start_message gives none.
C15_StartingMessage ==
    /\ tmr.some =>
          \A a \in CallArgs, c \in Clock :
              Message(tmr, "Starting", a, c) =
                  << <<"name", tmr.name>> >> \o Field("info", tmr.extra_info) \o Field("args", a)
    /\ \A i \in Records("TimerStarting") :
          /\ log[i].args = << <<"name", params.name>> >> \o Field("info", params.extra_info)
          /\ \A j \in 1..Len(log[i].args) : log[i].args[j][1] # "Elapsed"

\* stimer! with extra info emitted its Starting record after the clock had
\* moved on, and the timer went on to emit its Finished record.
C15_Witness ==
    /\ Len(log) = 2
    /\ log[1].target = "TimerStarting"
    /\ log[1].args = << <<"name", "MAIN">>, <<"info", "I">> >>
    /\ log[2].target = "TimerFinished"
    /\ log[2].args[2] = <<"Elapsed", 1>>

\* ------------------------------------------------------------------ properties of the attributes
\* The compiler has run the attribute.
Built == attr.macro # "none" /\ pc["main"] # "expand"

\* The literal arguments of the attribute, and the string extract_literal
\* makes of one.
Literals == macro_args_of(attr.metadata)
ArgValue(token) == extract_literal(token).s

\* The string names a level or "never", in any letter case.
IsLevelName(str) == to_ascii_lowercase(str) \in LevelNames

\* C16: a function under #[time] or #[stime] with the level "never", in any
\* letter case, with or without a name pattern, is emitted as written: the
\* build succeeds, a call of the function creates no timer and emits no record,
\* and its own block runs once.
C16_NeverLeavesFunctionUnchanged ==
    (/\ Built
     /\ Len(Literals) \in {1, 2}
     /\ to_ascii_lowercase(ArgValue(Literals[1])) = never)
    => /\ pc["main"] # "build_failed"
       /\ expansion = Tokens(attr.input)
       /\ ctor = "none"
       /\ tmr = NoTimer
       /\ log = <<>>
       /\ Done => blockRun = Some(0)

\* #[time("Never", "S::{}/{}")]: the function was called and has returned with
\* every level enabled, and there is no record.
C16_Witness ==
    /\ attr.macro = "time"
    /\ Len(Literals) = 2
    /\ ArgValue(Literals[1]) = <<"N", "e", "v", "e", "r">>
    /\ contains(ArgValue(Literals[2]), <<"{", "}">>)
    /\ Done
    /\ maxLevel = "Trace"
    /\ logger = "Trace"
    /\ blockRun = Some(0)
    /\ log = <<>>

\* C17, as stated: a first argument that names no level is rejected by a failure
\* of the build, as the only argument and as the first of two.
C17_UnrecognizedLevelRejected ==
    (/\ Built
     /\ Len(Literals) \in {1, 2}
     /\ ~IsLevelName(extract_literal(Literals[1]).s)
     /\ ~contains(extract_literal(Literals[1]).s, <<"{", "}">>))
    => pc["main"] = "build_failed"

\* C17, amended: a first argument that names no level is rejected by a failure
\* of the build when it is the first of two arguments, and no record is ever
\* emitted; as the only argument it is accepted as the name pattern, at the
\* default level "debug".
C17_UnrecognizedFirstOfTwoRejected ==
    (Built /\ Len(Literals) \in {1, 2} /\ ~IsLevelName(extract_literal(Literals[1]).s))
    => IF Len(Literals) = 2
       THEN parsed.panic /\ expansion.panic /\ pc["main"] = "build_failed" /\ log = <<>>
       ELSE /\ parsed = Pair(DEFAULT_LEVEL, extract_literal(Literals[1]).s)
            /\ pc["main"] # "build_failed"

\* #[stime("NOBRACKETS", "info")] has failed the build.
C17_Witness ==
    /\ attr.macro = "stime"
    /\ Len(Literals) = 2
    /\ ArgValue(Literals[1]) = <<"N", "O", "B", "R", "A", "C", "K", "E", "T", "S">>
    /\ ArgValue(Literals[2]) = <<"i", "n", "f", "o">>
    /\ pc["main"] = "build_failed"

\* C18: more than two literal arguments, or two arguments the first of which
\* contains "{}", make get_log_level_and_name_pattern panic, which fails the build.
C18_MalformedArgumentsPanic ==
    (/\ Built
     /\ \/ Len(Literals) > 2
        \/ Len(Literals) = 2 /\ contains(ArgValue(Literals[1]), <<"{", "}">>))
    => parsed.panic /\ expansion.panic /\ pc["main"] = "build_failed" /\ log = <<>>

\* #[time("info", "S::{}/{}", "")]: three literals, each a good argument in its
\* place, have failed the build.
C18_Witness ==
    /\ attr.macro = "time"
    /\ Len(Literals) = 3
    /\ ArgValue(Literals[1]) = <<"i", "n", "f", "o">>
    /\ contains(ArgValue(Literals[2]), <<"{", "}">>)
    /\ pc["main"] = "build_failed"
    /\ parsed.panic

\* What C19 says get_log_level_and_name_pattern returns for the literal
\* arguments whose strings are v: TRUE if r is that.
Returns(r, v) ==
    /\ Len(v) = 0 => r = Pair(<<"d", "e", "b", "u", "g">>, <<"{", "}">>)
    /\ (Len(v) = 1 /\ IsLevelName(v[1])) => r = Pair(to_ascii_lowercase(v[1]), <<"{", "}">>)
    /\ (Len(v) = 1 /\ ~IsLevelName(v[1])) => r = Pair(<<"d", "e", "b", "u", "g">>, v[1])
    /\ (Len(v) = 2 /\ IsLevelName(v[1])) =>
          r = Pair(to_ascii_lowercase(v[1]), IF v[2] = <<>> THEN <<"{", "}">> ELSE v[2])

\* C19, as stated: with the arguments being the strings the literals denote,
\* which is the text between their double quotes,
\* get_log_level_and_name_pattern returns ("debug", "{}") for none; (the level
\* lowered, "{}") for one that names a level in any letter case; ("debug", the
\* argument as written) for any other one; (the level lowered, the second) for
\* two with a level first, an empty second replaced by "{}".
C19_ReturnsLevelAndPattern ==
    LET written(token) == SubSeq(token.text, 2, Len(token.text) - 1)
    IN Built => Returns(parsed, [i \in 1..Len(Literals) |-> written(Literals[i])])

\* C19, amended: the same, with each argument being the text of the literal
\* trimmed of white space and double quotes at both ends, as extract_literal
\* leaves it: an argument of blanks around a level name is that level, and
\* an argument of blanks only is empty.
C19_ReturnsLevelAndTrimmedPattern ==
    Built => Returns(parsed, [i \in 1..Len(Literals) |-> extract_literal(Literals[i]).s])

\* #[time("NOBRACKETS")] made a timer at the default level, named as written.
C19_Witness ==
    /\ attr.macro = "time"
    /\ Len(Literals) = 1
    /\ parsed = Pair(<<"d", "e", "b", "u", "g">>,
                     <<"N", "O", "B", "R", "A", "C", "K", "E", "T", "S">>)
    /\ tmr.some
    /\ tmr.level = "Debug"
    /\ tmr.name = <<"N", "O", "B", "R", "A", "C", "K", "E", "T", "S">>

\* The places of the pattern at which a marker "{}" stands.
Markers(pat) == {i \in 1..(Len(pat) - 1) : pat[i] = "{" /\ pat[i + 1] = "}"}

\* C20: the timer's name is the name pattern with its first "{}" replaced by
\* the function's name followed by "()"; any later "{}" is left as it is, and a
\* pattern without "{}" is the name as it stands.  The timer made on entry to
\* the function has this name.
C20_TimerNameFromPattern ==
    (Built /\ ~expansion.panic /\ expansion.item # attr.input) =>
        LET pat == parsed.name_pattern
            name == expansion.item.body[1].timer_name
        IN /\ Markers(pat) = {} => name = pat
           /\ \A i \in Markers(pat) :
                 (\A j \in Markers(pat) : i <= j) =>
                     name = SubSeq(pat, 1, i - 1) \o attr.input.ident \o <<"(", ")">>
                            \o SubSeq(pat, i + 2, Len(pat))
           /\ tmr.some => tmr.name = name

\* #[stime("info", "S::{}/{}")] on the function new: the Starting record names
\* the timer S::new()/{}.
C20_Witness ==
    /\ attr.macro = "stime"
    /\ parsed.name_pattern = <<"S", ":", ":", "{", "}", "/", "{", "}">>
    /\ log # <<>>
    /\ log[1].target = "TimerStarting"
    /\ log[1].args[1] = <<"name", <<"S", ":", ":", "n", "e", "w", "(", ")", "/", "{", "}">> >>

\* ------------------------------------------------------------------ properties, continued
\* C21, as stated: no record is handed to the logger at a moment when the
\* enablement query for the timer's level answers false: a thread that stands
\* between log_impl's query and the logger finds the level enabled.
C21_NoRecordWhileDisabled ==
    \A t \in Threads : pc[t] = "log_record" => LogEnabled(tmr.level)

\* C21, amended: a record is handed to the logger only by a log_impl call whose
\* own enablement query, made first and for the level the record carries,
\* answered true; a log_impl call whose query answers false returns at once and
\* emits nothing.  The filter may have changed by the time the logger is called.
C21_RecordOnlyAfterEnabledQuery ==
    [][/\ \A t \in Threads :
             (pc'[t] = "log_format" /\ pc[t] # "log_format")
                 => /\ pc[t] = "log_impl"
                    /\ LogEnabled(tmr.level)
                    /\ log' = log
                    /\ fmtArgs' = fmtArgs
       /\ \A t \in Threads :
             (pc'[t] = "log_record" /\ pc[t] # "log_record")
                 => (pc[t] = "log_format" /\ log' = log)
       /\ \A t \in Threads :
             (pc[t] = "log_impl" /\ pc'[t] # "log_impl" /\ ~LogEnabled(tmr.level))
                 => (pc'[t] \in {"idle", "done"} /\ log' = log)
       /\ Len(log') > Len(log)
             => /\ \E t \in Threads : pc[t] = "log_record" /\ pc'[t] # "log_record"
                /\ log'[Len(log')].level = tmr.level
       /\ (\E t \in Threads : pc[t] \in {"log_format", "log_record"})
             => tmr'.level = tmr.level]_vars

\* A timer emitted its Finished record after one of its executing calls had
\* found the level not enabled and emitted nothing.
C21_Witness ==
    /\ Done
    /\ suppressed["Executing"] = 1
    /\ Count("TimerExecuting") = 0
    /\ Count("TimerFinished") = 1

\* C22, as stated: executing never sets finished, so after executing calls a
\* later finish or the drop still emits the Finished record.
C22_FinishedStillEmitted ==
    (Done /\ tmr.some /\ nExec >= 1 /\ ~lateExec) => Count("TimerFinished") = 1

\* C22, amended: from its call to its return, executing leaves every field of
\* the timer as it is (finished, start_time, level, name, extra_info, call
\* site) and emits nothing or one record, an Executing one; each call emits at
\* most one.  As it never sets finished, a later finish or the drop still makes
\* its one log_impl call for Finished, which emits the Finished record if the
\* level is enabled at that moment.
C22_ExecutingFrame ==
    /\ [][(op["main"] = "executing" \/ op'["main"] = "executing") =>
            /\ tmr' = tmr
            /\ \/ log' = log
               \/ /\ Len(log') = Len(log) + 1
                  /\ SubSeq(log', 1, Len(log)) = log
                  /\ log'[Len(log')].target = "TimerExecuting"
                  /\ op["main"] = "executing"
                  /\ op'["main"] = "none"]_vars
    /\ [](Cardinality({i \in 1..Len(log) : emittedBy[i] = "executing"}) <= nExec)
    /\ []((Done /\ tmr.some /\ nExec >= 1 /\ ~lateExec) =>
             /\ tmr.finished
             /\ Count("TimerFinished") + suppressed["Finished"] = 1)

\* Two executing calls, one with the level enabled and one without, then the
\* drop, which emitted the Finished record.
C22_Witness ==
    /\ Done
    /\ nExec = 2
    /\ ~lateExec
    /\ Count("TimerExecuting") = 1
    /\ suppressed["Executing"] = 1
    /\ finCalls = <<>>
    /\ Count("TimerFinished") = 1

\* C23: start_time is set once, by the constructor, to the instant the clock
\* shows then, before any record of the timer is emitted, the Starting record
\* of with_start_message included; no later operation changes it.
C23_StartTimeSetOnce ==
    /\ [][/\ tmr.some => (tmr'.some /\ tmr'.start_time = tmr.start_time)
          /\ (~tmr.some /\ tmr'.some) =>
                /\ pc["main"] \in {"start", "wsm_new"}
                /\ tmr'.start_time = now'
                /\ log = <<>>
                /\ log' = <<>>
          /\ log' # log => tmr.some]_vars
    /\ [](tmr.some => tmr.start_time <= now)

\* with_start_message started the timer at instant 1 and then emitted the
\* Starting record; the level was changed, and the Finished record shows no
\* time elapsed since instant 1.
C23_Witness ==
    /\ ctor = "with_start_message"
    /\ tmr.some
    /\ tmr.start_time = 1
    /\ tmr.level # params.level
    /\ Len(log) = 2
    /\ log[1].target = "TimerStarting"
    /\ log[2].target = "TimerFinished"
    /\ log[2].args[2] = <<"Elapsed", 0>>

\* The records that report an elapsed time, and the time record i reports.
Timed == Records("TimerExecuting") \cup Records("TimerFinished")
ElapsedOf(i) == log[i].args[2][2]

\* The elapsed times that were read for a record and are not yet handed over.
Pending == {t \in Threads : IsSome(fmtArgs[t]) /\ target[t] # "Starting"}
PendingElapsed(t) == fmtArgs[t][1][2][2]

\* C24, as stated: the elapsed times of the Executing and Finished records
\* never go down along the log, so the Finished record reports at least what
\* every Executing record emitted before it reports.
C24_RecordsMonotone ==
    \A i \in Timed, j \in Timed : i < j => ElapsedOf(i) <= ElapsedOf(j)

\* C24: with a clock that never goes back, the elapsed times one timer reports
\* never go down from one sample to the next in the order the samples are
\* taken, be the sample an elapsed() call or the one read for an Executing or
\* Finished record: a sample is the time since start_time and at least every
\* sample taken before it.  With the timer in one thread the records are
\* emitted in the order of their samples, so the Finished record reports at
\* least what every Executing record before it reports.  elapsed() emits no
\* record and changes no field of the timer.
C24_ElapsedMonotone ==
    /\ [](~shared => C24_RecordsMonotone)
    /\ [](\A i \in 1..Len(elapsedCalls), j \in 1..Len(elapsedCalls) :
             i < j => elapsedCalls[i] <= elapsedCalls[j])
    /\ [](tmr.some =>
             /\ \A i \in Timed : ElapsedOf(i) <= now - tmr.start_time
             /\ \A t \in Pending : PendingElapsed(t) <= now - tmr.start_time)
    /\ [][Len(elapsedCalls') > Len(elapsedCalls) =>
             /\ tmr' = tmr
             /\ log' = log
             /\ pc' = pc
             /\ fmtArgs' = fmtArgs
             /\ elapsedCalls'[Len(elapsedCalls')] = now' - tmr.start_time
             /\ \A i \in Timed : ElapsedOf(i) <= elapsedCalls'[Len(elapsedCalls')]
             /\ \A t \in Pending : PendingElapsed(t) <= elapsedCalls'[Len(elapsedCalls')]]_vars
    /\ [][\A t \in Threads :
             (pc[t] = "log_format" /\ pc'[t] = "log_record" /\ target[t] # "Starting") =>
                 /\ fmtArgs'[t][1][2][2] = now' - tmr.start_time
                 /\ \A i \in Timed : ElapsedOf(i) <= fmtArgs'[t][1][2][2]
                 /\ \A u \in Pending : PendingElapsed(u) <= fmtArgs'[t][1][2][2]
                 /\ \A k \in 1..Len(elapsedCalls) : elapsedCalls[k] <= fmtArgs'[t][1][2][2]]_vars
    /\ [][(Len(log') > Len(log) /\ log'[Len(log')].target # "TimerStarting") =>
             \E t \in Pending : log'[Len(log')].args = fmtArgs[t][1]]_vars

\* An Executing record at no time elapsed, an elapsed() call that returned 1,
\* and the Finished record, which reports 1 as well.
C24_Witness ==
    /\ Done
    /\ Len(log) = 2
    /\ log[1].target = "TimerExecuting"
    /\ ElapsedOf(1) = 0
    /\ elapsedCalls = <<1>>
    /\ log[2].target = "TimerFinished"
    /\ ElapsedOf(2) = 1

\* C26: a finish call on an unfinished timer at a moment when its level is not
\* enabled still sets the finished flag and emits no record; every later finish
\* and the drop then emit no Finished record either, even with the level
\* enabled again by then.
C26_DisabledFinishIsFinal ==
    /\ [](suppressed["Finished"] >= 1 =>
             /\ tmr.finished
             /\ suppressed["Finished"] = 1
             /\ Count("TimerFinished") = 0
             /\ \A t \in Threads : pc[t] # "fin_store" /\ target[t] # "Finished")
    /\ [][suppressed'["Finished"] > suppressed["Finished"] =>
             (tmr.finished /\ tmr' = tmr /\ log' = log /\ ~LogEnabled(tmr.level))]_vars

\* The first finish found the level not enabled; with every level enabled
\* again the second finish and the drop emitted nothing.
C26_Witness ==
    /\ Done
    /\ Len(finCalls) = 2
    /\ ~finCalls[1].finished
    /\ finCalls[2].finished
    /\ suppressed["Finished"] = 1
    /\ maxLevel = "Trace"
    /\ logger = "Trace"
    /\ tmr.finished
    /\ log = <<>>

\* The tokens of the stream ts without comma, identifier or other non-literal.
RECURSIVE WithoutNonLiterals(_)
WithoutNonLiterals(ts) ==
    IF ts = <<>> THEN <<>>
    ELSE IF Head(ts).kind = "Literal"
         THEN <<Head(ts)>> \o WithoutNonLiterals(Tail(ts))
         ELSE WithoutNonLiterals(Tail(ts))

\* C27: the tokens of the attribute that are not literals are discarded before
\* the arguments are read: the result is that of the literals alone, an
\* attribute without any literal, such as #[time(info)], gives the defaults
\* ("debug", "{}") and builds, and extract_literal is given literals only, so
\* its panic is not reached.
C27_NonLiteralsDiscarded ==
    Built =>
        /\ parsed = get_log_level_and_name_pattern(WithoutNonLiterals(attr.metadata))
        /\ WithoutNonLiterals(attr.metadata) = <<>> =>
              /\ parsed = Pair(<<"d", "e", "b", "u", "g">>, <<"{", "}">>)
              /\ ~expansion.panic
              /\ pc["main"] # "build_failed"
        /\ \A i \in 1..Len(Literals) :
              Literals[i].kind = "Literal" /\ ~extract_literal(Literals[i]).panic

\* #[time(info)] on the function new: the function was built, called and has
\* returned, with a timer new() at the level Debug.
C27_Witness ==
    /\ attr.macro = "time"
    /\ attr.metadata = <<Ident(<<"i", "n", "f", "o">>)>>
    /\ Done
    /\ tmr.some
    /\ tmr.level = "Debug"
    /\ tmr.name = <<"n", "e", "w", "(", ")">>
    /\ Count("TimerFinished") = 1

\* The attribute wrote a function other than the one it was given.
Wrapped == Built /\ ~expansion.panic /\ expansion.item # attr.input

\* C25, as stated: the drop of the timer emits its Finished record only after
\* the body has completed, whatever the body binds, and once the body of a
\* #[stime] function has run with a timer in being, exactly one Starting
\* record has been emitted.
C25_BracketsAndExactlyOneStarting ==
    Wrapped =>
        /\ \A i \in Records("TimerFinished") :
              emittedBy[i] = "drop" => (IsSome(blockRun) /\ i > blockRun[1])
        /\ (attr.macro = "stime" /\ IsSome(blockRun) /\ tmr.some)
              => Count("TimerStarting") = 1

\* C25: a wrapped function is the let of the timer followed by the body as
\* written, and no statement of the body runs before the constructor has
\* returned.  The drop at the end of the function finishes the timer only
\* after the body has completed.  A body that does not name _tmr, one that
\* binds a _tmr of its own included, cannot end the timer early: until it
\* has completed the timer is not finished and no Finished record exists.  A
\* body that names the function's _tmr can: what finishes the timer before
\* the body's end is a finish!(_tmr) or the drop of a block of the body that
\* moved _tmr, and nothing else.  #[time] emits no Starting record; #[stime]
\* emits at most one, the first record and before the body, and with a timer
\* in being it either emitted it or had it suppressed by the level check.
C25_TimerBracketsBody ==
    Wrapped =>
        /\ expansion.item.body[1].stmt = "let _tmr"
        /\ expansion.item.body = <<expansion.item.body[1]>> \o attr.input.body
        /\ (bodyAt > 0 \/ IsSome(blockRun)) => (ctor # "none" /\ CtorReturned)
        /\ (blockRun = None /\ ~NamesTmr(attr.input.body[1])) =>
              /\ Count("TimerFinished") = 0
              /\ finCalls = <<>>
              /\ pc["main"] # "fin_store"
              /\ op["main"] # "drop"
              /\ ~(tmr.some /\ tmr.finished)
        /\ ~Moved =>
              /\ blockRun = None => op["main"] # "drop"
              /\ \A i \in Records("TimerFinished") :
                    emittedBy[i] = "drop" => (IsSome(blockRun) /\ i > blockRun[1])
        /\ \A i \in Records("TimerFinished") :
              \/ IsSome(blockRun) /\ i > blockRun[1]
              \/ /\ emittedBy[i] = "finish"
                 /\ \E k \in 1..bodyAt : OwnBlock.stmts[k] = FinishStmt("_tmr")
              \/ emittedBy[i] = "drop" /\ Moved
        /\ (tmr.some /\ tmr.finished /\ blockRun = None) => (bodyAt > 0 /\ NamesTmr(OwnBlock))
        /\ Done => (IsSome(blockRun) /\ (tmr.some => tmr.finished))
        /\ attr.macro = "time" => (Count("TimerStarting") = 0 /\ ctor \in {"none", "new"})
        /\ attr.macro = "stime" =>
              /\ ctor \in {"none", "with_start_message"}
              /\ \A i \in Records("TimerStarting") :
                    /\ i = 1
                    /\ emittedBy[i] = "with_start_message"
                    /\ IsSome(blockRun) => blockRun[1] >= 1
              /\ (IsSome(blockRun) /\ tmr.some)
                    => Count("TimerStarting") + suppressed["Starting"] = 1

\* A #[stime] function whose body binds _tmr has returned: the Starting record
\* came before the body and the Finished record after it.
C25_Witness ==
    /\ Wrapped
    /\ attr.macro = "stime"
    /\ attr.input.body = <<HygieneBlock>>
    /\ Done
    /\ blockRun = Some(1)
    /\ Records("TimerStarting") = {1}
    /\ Records("TimerFinished") = {2}

====
